---- MODULE Spec2Model ----
(***************************************************************************)
(* State-machine model of influx-ingester.py: an MQTT subscriber that      *)
(* converts each JSON sensor reading to InfluxDB line data and POSTs it.   *)
(*                                                                         *)
(* The process is single threaded.  main() loads the configuration, sets   *)
(* the log level, connects and subscribes, then blocks in loop_forever(),  *)
(* which calls on_message once per message.  on_message is modelled in two *)
(* steps, split at the only blocking call it makes (requests.post): the    *)
(* step up to issuing the POST, and the step from the answer to the POST   *)
(* to the return of the handler.                                           *)
(*                                                                         *)
(* Environment assumptions, stated once:                                   *)
(*  - an exception that leaves on_message leaves loop_forever() and main() *)
(*    too (the MQTT client does not swallow callback exceptions) and is    *)
(*    caught by the handler at the bottom of the script;                   *)
(*  - the wall clock advances by one tick across every HTTP round trip,    *)
(*    so two reads of it that are a round trip apart differ and the rate   *)
(*    computed for the progress report divides by a positive time.         *)
(***************************************************************************)
EXTENDS Integers, Sequences, FiniteSets, TLC

\* ---------------------------------------------------------------- bounds
\* Messages the broker delivers in one run.
MaxMessages == 501
\* Non-204 answers of the write endpoint in one run.
MaxRejected == 2
\* Messages waiting on the connection while the handler is busy.
MaxPending == 2

\* ------------------------------------------------------ program constants
TIMING_INTERVAL == 500
HTTP_NO_CONTENT == 204
\* logging levels of the Python logging module
DEBUG == 10
INFO == 20
ERROR == 40

\* ----------------------------------------------------------------- inputs
\* What the -c argument leads to: no argument, a file that is not YAML,
\* an empty document, or a mapping.
ConfigFiles == {"none", "unparseable", "empty", "ok"}
\* A configuration key holding a usable value, a value the library rejects
\* or does not know, or no key at all.
KeyStates == {"valid", "invalid", "absent"}
\* The configuration mapping, reduced to what the program reads from it.
\*   mqtt    : source.mqtt holds the broker's parameters (FALSE: it is empty)
\*   srcTz   : source.timezone
\*   tsFormat: source.timestamp_format
\*   dstTz   : destination.timezone
\*   influx  : destination.influxdb has api_endpoint, org, bucket, precision, token
Configs ==
  [file : {"ok"}, mqtt : BOOLEAN, srcTz : KeyStates, tsFormat : KeyStates,
   dstTz : KeyStates, influx : BOOLEAN]
    \cup [file : ConfigFiles \ {"ok"}, mqtt : {FALSE}, srcTz : {"absent"},
          tsFormat : {"absent"}, dstTz : {"absent"}, influx : {FALSE}]

\* Payloads of an MQTT message, by the first thing that is wrong with them.
Payloads ==
  {"valid", "bad_utf8", "bad_json", "not_object", "no_station", "no_timestamp",
   "bad_timestamp"}
\* HTTP status codes the write endpoint answers with.
Statuses == {200, 204, 400, 500}
\* Kinds of log record the program writes.
Categories == {"startup", "received", "posting", "response", "summary", "exception"}

VARIABLES
  pc,             \* "start", "configured", "logging_set", "idle", "posting", "exited"
  silentArg,      \* the --silent command line flag
  config,         \* the configuration the -c file holds
  userdata,       \* the dict main() hands to the MQTT client
  rootLevel,      \* level of the root logger
  log,            \* number of records written to the log, per category
  exitCode,       \* exit code of the process, -1 while it runs
  error,          \* class of the exception that ended the process, or "none"
  connected,      \* the broker connection has been made
  arrived,        \* messages the broker has delivered on the connection
  entered,        \* invocations of on_message so far
  completed,      \* invocations of on_message that returned
  cur,            \* the message on_message is handling: its number and payload
  ingested,       \* on_message's local variable `ingested`
  requests,       \* HTTP requests in flight, each naming the message it carries
  posts,          \* calls of requests.post so far
  lastPost,       \* number of the message the last POST carried, 0 if none
  accepted,       \* 204 answers so far
  rejected,       \* other answers so far
  answered,       \* number of the last message whose POST was answered, 0 if none
  status,         \* status code of that answer, 0 if none
  result,         \* what send_data_to_influx returned for it
  failed,         \* number of the message whose POST raised, 0 if none
  clock,          \* wall clock, in ticks
  json_data,      \* converter: the reading, a sequence of key/value pairs
  conv_config,    \* converter: source timezone and format, destination timezone
  local_tz,       \* converter: the timezone of the system the program runs on
  line_data,      \* converter: what convert_json_to_linedata gave
  conv_pc         \* converter: "off", "ready", "done" or "again"

vars ==
  <<pc, silentArg, config, userdata, rootLevel, log, exitCode, error, connected,
    arrived, entered, completed, cur, ingested, requests, posts, lastPost,
    accepted, rejected, answered, status, result, failed, clock,
    json_data, conv_config, local_tz, line_data, conv_pc>>

\* The variables of the converter taken alone, which the pipeline leaves as
\* they are.
converter == <<json_data, conv_config, local_tz, line_data, conv_pc>>

NoLine == [error |-> "none", text |-> "", timestamp_nano |-> ""]

ConverterOff ==
  /\ json_data = <<>>
  /\ conv_config = [timezone_src |-> "UTC", timestamp_format |-> <<>>,
                    timezone_dst |-> "UTC"]
  /\ local_tz = "UTC"
  /\ line_data = NoLine
  /\ conv_pc = "off"

NoMessage == [id |-> 0, payload |-> "none"]

\* --------------------------------------------------------------- logging
\* A record is written when its level is at least the effective level of the
\* module logger, which is the root logger's level (the module logger sets none).
Emit(l, level, cat) ==
  IF level >= rootLevel THEN [l EXCEPT ![cat] = @ + 1] ELSE l

\* -------------------------------------------------------------- start up
Init ==
  /\ pc = "start"
  /\ silentArg \in BOOLEAN
  /\ config \in Configs
  /\ userdata = [silent |-> FALSE, received |-> 0, ingested |-> 0, last_datetime |-> 0]
  /\ rootLevel = DEBUG
  /\ log = [c \in Categories |-> 0]
  /\ exitCode = -1
  /\ error = "none"
  /\ connected = FALSE
  /\ arrived = 0
  /\ entered = 0
  /\ completed = 0
  /\ cur = NoMessage
  /\ ingested = 0
  /\ requests = <<>>
  /\ posts = 0
  /\ lastPost = 0
  /\ accepted = 0
  /\ rejected = 0
  /\ answered = 0
  /\ status = 0
  /\ result = FALSE
  /\ failed = 0
  /\ clock = 0
  /\ ConverterOff

\* ------------------------------------------------------------ termination
\* The handler at the bottom of the script: an Exception that leaves main()
\* is logged at ERROR level and the process exits with code 1.
Uncaught(l) == Emit(l, ERROR, "exception")

\* Variables of the message pipeline, which start-up leaves alone.
pipeline ==
  <<arrived, entered, completed, cur, ingested, requests, posts, lastPost,
    accepted, rejected, answered, status, result, failed, clock>>

\* A faulty variant of LoadConfig: on an empty document the program exits
\* through sys.exit() without a code, which is exit code 0.
LoadConfigExitZero ==
  /\ pc = "start"
  /\ CASE config.file = "none" ->
            /\ pc' = "exited"
            /\ exitCode' = 1
            /\ error' = "UnboundLocalError"
            /\ log' = Uncaught(Emit(log, ERROR, "startup"))
       [] config.file = "unparseable" ->
            /\ pc' = "exited"
            /\ exitCode' = 1
            /\ error' = "UnboundLocalError"
            /\ log' = Uncaught(Emit(log, ERROR, "exception"))
       [] config.file = "empty" ->
            /\ pc' = "exited"
            /\ exitCode' = 0
            /\ error' = "SystemExit"
            /\ log' = log
       [] OTHER ->
            /\ pc' = "configured"
            /\ UNCHANGED <<exitCode, error, log>>
  /\ UNCHANGED <<silentArg, config, userdata, rootLevel, connected>>
  /\ UNCHANGED pipeline
  /\ UNCHANGED converter

\* main(), from the argument parser to the check of the loaded configuration.
\* With no -c argument, or with a file that is not YAML, `config` is never
\* bound and `if not config` raises UnboundLocalError; an empty document
\* loads as None and main() calls sys.exit(1).
LoadConfig ==
  /\ pc = "start"
  /\ CASE config.file = "none" ->
            /\ pc' = "exited"
            /\ exitCode' = 1
            /\ error' = "UnboundLocalError"
            /\ log' = Uncaught(Emit(log, ERROR, "startup"))
       [] config.file = "unparseable" ->
            /\ pc' = "exited"
            /\ exitCode' = 1
            /\ error' = "UnboundLocalError"
            /\ log' = Uncaught(Emit(log, ERROR, "exception"))
       [] config.file = "empty" ->
            /\ pc' = "exited"
            /\ exitCode' = 1
            /\ error' = "SystemExit"
            /\ log' = log
       [] OTHER ->
            /\ pc' = "configured"
            /\ UNCHANGED <<exitCode, error, log>>
  /\ UNCHANGED <<silentArg, config, userdata, rootLevel, connected>>
  /\ UNCHANGED pipeline
  /\ UNCHANGED converter

\* main(), the --silent switch: 'SILENT mode' is logged, then the root
\* logger's level is raised to ERROR.
SetLogging ==
  /\ pc = "configured"
  /\ pc' = "logging_set"
  /\ IF silentArg
       THEN /\ log' = Emit(log, INFO, "startup")
            /\ rootLevel' = ERROR
       ELSE UNCHANGED <<log, rootLevel>>
  /\ UNCHANGED <<silentArg, config, userdata, exitCode, error, connected>>
  /\ UNCHANGED pipeline
  /\ UNCHANGED converter

\* setup_client(): the connection is made and the topic subscribed, unless the
\* broker cannot be reached, in which case connect() raises.
setup_client(brokerUp, l) ==
  IF brokerUp
    THEN /\ connected' = TRUE
         /\ pc' = "idle"
         /\ log' = l
         /\ UNCHANGED <<exitCode, error>>
    ELSE /\ connected' = FALSE
         /\ pc' = "exited"
         /\ exitCode' = 1
         /\ error' = "ConnectionError"
         /\ log' = Uncaught(l)

\* main(), the source branch: without an MQTT source the program logs that and
\* returns (exit code 0); with one it builds userdata, with both counters 0
\* and the current time, logs what it waits for, and connects.
StartListening(brokerUp) ==
  /\ pc = "logging_set"
  /\ IF config.mqtt
       THEN /\ userdata' = [silent |-> silentArg, received |-> 0, ingested |-> 0,
                            last_datetime |-> clock]
            /\ setup_client(brokerUp, Emit(log, INFO, "startup"))
       ELSE /\ pc' = "exited"
            /\ exitCode' = 0
            /\ log' = Emit(Emit(log, INFO, "startup"), INFO, "startup")
            /\ UNCHANGED <<userdata, error, connected>>
  /\ UNCHANGED <<silentArg, config, rootLevel>>
  /\ UNCHANGED pipeline
  /\ UNCHANGED converter

\* ------------------------------------------------------------ the receiver
\* The broker delivers one more message on the connection; it waits there
\* until loop_forever() is free to hand it to on_message.
Arrive ==
  /\ pc \in {"idle", "posting"}
  /\ connected
  /\ arrived < MaxMessages
  /\ arrived - entered < MaxPending
  /\ arrived' = arrived + 1
  /\ UNCHANGED <<pc, silentArg, config, userdata, rootLevel, log, exitCode, error,
                 connected, entered, completed, cur, ingested, requests, posts,
                 lastPost, accepted, rejected, answered, status, result, failed,
                 clock>>
  /\ UNCHANGED converter

\* ----------------------------------------------------------- the converter
\* A faulty variant of ConvertError: a TIMESTAMP that does not match the
\* format is let through.
ConvertErrorLenient(payload, cfg) ==
  CASE payload = "not_object" -> "TypeError"
    [] payload = "no_station" -> "KeyError"
    [] payload = "no_timestamp" -> "KeyError"
    [] cfg.srcTz = "absent" -> "KeyError"
    [] cfg.dstTz = "absent" -> "KeyError"
    [] cfg.tsFormat = "absent" -> "KeyError"
    [] OTHER -> "none"

\* convert_json_to_linedata(), by the exception it raises ("none": it returns
\* the line data).  The statements run in this order: json_data['Station'],
\* json_data['TIMESTAMP'], config['source']['timezone'],
\* config['destination']['timezone'], config['source']['timestamp_format'],
\* strptime.  A timezone name the library does not know makes gettz() return
\* None, which raises nothing.
ConvertError(payload, cfg) ==
  CASE payload = "not_object" -> "TypeError"
    [] payload = "no_station" -> "KeyError"
    [] payload = "no_timestamp" -> "KeyError"
    [] cfg.srcTz = "absent" -> "KeyError"
    [] cfg.dstTz = "absent" -> "KeyError"
    [] cfg.tsFormat = "absent" -> "KeyError"
    [] cfg.tsFormat = "invalid" -> "ValueError"
    [] payload = "bad_timestamp" -> "ValueError"
    [] OTHER -> "none"

\* send_data_to_influx() up to the POST, by the exception it raises: the
\* converter's, or KeyError when a destination.influxdb key is missing.
PrepareError(payload, cfg) ==
  IF ConvertError(payload, cfg) # "none" THEN ConvertError(payload, cfg)
  ELSE IF ~cfg.influx THEN "KeyError"
  ELSE "none"

\* Faulty variants of is_successful_ingest: any 2xx status counts, and any
\* status below 400 counts (the library's response.ok).
is_successful_ingest_2xx(status_code) == status_code >= 200 /\ status_code < 300

is_successful_ingest_ok(status_code) == status_code < 400

\* is_successful_ingest()
is_successful_ingest(status_code) == status_code = HTTP_NO_CONTENT

\* --------------------------------------------------------------- on_message
\* An exception leaves on_message: loop_forever() and main() are left with
\* it, the handler at the bottom of the script logs it, exit code 1.
Raise(err, l) ==
  /\ pc' = "exited"
  /\ exitCode' = 1
  /\ error' = err
  /\ log' = Uncaught(l)

\* A faulty variant of Post: the request is handed to a worker and the handler
\* returns at once, without waiting for the answer.
PostAsync(id, l) ==
  /\ pc' = "idle"
  /\ log' = l
  /\ requests' = Append(requests, [msg |-> id])
  /\ posts' = posts + 1
  /\ lastPost' = id
  /\ UNCHANGED <<exitCode, error>>

\* send_data_to_influx(), the call of requests.post: one request, carrying the
\* line data of message `id` alone, is sent and the handler blocks until it is
\* answered or fails.
Post(id, l) ==
  /\ pc' = "posting"
  /\ log' = l
  /\ requests' = Append(requests, [msg |-> id])
  /\ posts' = posts + 1
  /\ lastPost' = id
  /\ UNCHANGED <<exitCode, error>>

\* on_message, from its entry to the call of requests.post.
OnMessage(payload) ==
  /\ pc = "idle"
  /\ entered < arrived
  /\ entered' = entered + 1
  /\ cur' = [id |-> entered + 1, payload |-> payload]
  /\ IF payload = "bad_utf8"
       THEN \* message.payload.decode('utf-8') raises
            /\ Raise("UnicodeDecodeError", log)
            /\ UNCHANGED <<userdata, ingested, requests, posts, lastPost>>
       ELSE LET ud == [userdata EXCEPT !.received = @ + 1]
                l1 == IF ud.silent THEN log ELSE Emit(log, DEBUG, "received")
            IN  /\ userdata' = ud
                /\ ingested' = ud.ingested
                /\ IF payload = "bad_json"
                     THEN \* json.loads raises
                          /\ Raise("JSONDecodeError", l1)
                          /\ UNCHANGED <<requests, posts, lastPost>>
                     ELSE IF PrepareError(payload, config) # "none"
                     THEN /\ Raise(PrepareError(payload, config), l1)
                          /\ UNCHANGED <<requests, posts, lastPost>>
                     ELSE Post(entered + 1,
                               IF ud.silent THEN l1 ELSE Emit(l1, DEBUG, "posting"))
  /\ UNCHANGED <<silentArg, config, rootLevel, connected, arrived, completed,
                 accepted, rejected, answered, status, result, failed, clock>>
  /\ UNCHANGED converter

\* The progress report at the end of on_message: in silent mode, on every
\* TIMING_INTERVAL-th message, the time of the report is stored and one
\* summary is logged at INFO level.
Report(ud, l, now) ==
  IF ud.silent /\ ud.received % TIMING_INTERVAL = 0
    THEN /\ userdata' = [ud EXCEPT !.last_datetime = now]
         /\ log' = Emit(l, INFO, "summary")
    ELSE /\ userdata' = ud
         /\ log' = l

\* A faulty variant of Count: the count goes up whatever was returned.
CountAlways(n, ok) == n + 1

\* on_message, lines 72 to 74: the local count of ingested messages goes up
\* by one when send_data_to_influx returned True.
Count(n, ok) == IF ok THEN n + 1 ELSE n

\* on_message, from the answer to the POST to its return.
PostAnswered(code) ==
  /\ pc = "posting"
  /\ requests # <<>>
  /\ code # HTTP_NO_CONTENT => rejected < MaxRejected
  /\ requests' = Tail(requests)
  /\ clock' = clock + 1
  /\ LET l1 == IF userdata.silent THEN log ELSE Emit(log, DEBUG, "response")
         ok == is_successful_ingest(code)
         n  == Count(ingested, ok)
     IN  /\ result' = ok
         /\ ingested' = n
         /\ Report([userdata EXCEPT !.ingested = n], l1, clock + 1)
  /\ answered' = requests[1].msg
  /\ status' = code
  /\ accepted' = IF code = HTTP_NO_CONTENT THEN accepted + 1 ELSE accepted
  /\ rejected' = IF code = HTTP_NO_CONTENT THEN rejected ELSE rejected + 1
  /\ completed' = completed + 1
  /\ pc' = "idle"
  /\ UNCHANGED <<silentArg, config, rootLevel, exitCode, error, connected, arrived,
                 entered, cur, posts, lastPost, failed>>
  /\ UNCHANGED converter

\* A faulty variant of PostFailed: the exception is logged and swallowed, and
\* the handler returns.
PostFailedContinue ==
  /\ pc = "posting"
  /\ requests # <<>>
  /\ requests' = Tail(requests)
  /\ clock' = clock + 1
  /\ pc' = "idle"
  /\ log' = Emit(log, ERROR, "exception")
  /\ failed' = requests[1].msg
  /\ completed' = completed + 1
  /\ UNCHANGED <<silentArg, config, userdata, rootLevel, exitCode, error, connected,
                 arrived, entered, cur, ingested, posts, lastPost, accepted,
                 rejected, answered, status, result>>
  /\ UNCHANGED converter

\* requests.post raises a RequestException: it is logged and SystemExit is
\* raised, which no handler catches.
PostFailed ==
  /\ pc = "posting"
  /\ requests # <<>>
  /\ requests' = Tail(requests)
  /\ clock' = clock + 1
  /\ pc' = "exited"
  /\ exitCode' = 1
  /\ error' = "SystemExit"
  /\ log' = Emit(log, ERROR, "exception")
  /\ failed' = requests[1].msg
  /\ UNCHANGED <<silentArg, config, userdata, rootLevel, connected, arrived,
                 entered, completed, cur, ingested, posts, lastPost, accepted,
                 rejected, answered, status, result>>
  /\ UNCHANGED converter

Next ==
  \/ LoadConfig
  \/ SetLogging
  \/ \E brokerUp \in BOOLEAN : StartListening(brokerUp)
  \/ Arrive
  \/ \E payload \in Payloads : OnMessage(payload)
  \/ \E code \in Statuses : PostAnswered(code)
  \/ PostFailed

Spec == Init /\ [][Next]_vars

\* ================================================================== claims

\* C1: between two invocations of on_message, when N invocations have run to
\* completion and K of them were answered 204, received is N and ingested is
\* K, in whatever order the 204 and the other answers came.
C1_CountersMatch ==
  (pc = "idle") =>
    /\ userdata.received = completed
    /\ userdata.ingested = accepted

\* C1 witness: three messages handled, one rejected before the last was accepted.
C1_Witness ==
  /\ pc = "idle"
  /\ completed = 3
  /\ accepted = 2
  /\ rejected = 1
  /\ status = HTTP_NO_CONTENT

\* C2 as claimed: every invocation of on_message has incremented received, so
\* received equals the number of invocations.  The code decodes the payload
\* before it counts, and a payload that is not UTF-8 leaves received as it was.
C2_ReceivedCountsEveryInvocation == userdata.received = entered

\* C3: send_data_to_influx returns True exactly for status 204, and a message
\* whose POST was answered, with any status, raised nothing.
C3_TrueIff204 ==
  (answered > 0) =>
    /\ result <=> (status = HTTP_NO_CONTENT)
    /\ (answered = entered) => (error = "none" /\ pc # "exited")

\* C3 witness: a POST answered 200, for which False was returned.
C3_Witness ==
  /\ answered > 0
  /\ answered = entered
  /\ status = 200
  /\ result = FALSE

\* C4: the step that takes a non-204 answer leaves ingested as it was, ends the
\* handler and leaves the process running in its loop; and in the state it
\* leads to, a message that waits on the connection can be handled.
C4_RejectionNotFatal ==
  /\ [][(rejected' = rejected + 1) =>
          /\ userdata'.ingested = userdata.ingested
          /\ completed' = completed + 1
          /\ pc' = "idle"
          /\ connected'
          /\ exitCode' = -1
          /\ error' = "none"]_vars
  /\ []((pc = "idle" /\ answered = entered /\ answered > 0
           /\ status # HTTP_NO_CONTENT /\ entered < arrived)
          => ENABLED OnMessage("valid"))

\* C4 witness: a message was accepted after an earlier one had been rejected.
C4_Witness ==
  /\ pc = "idle"
  /\ rejected >= 1
  /\ status = HTTP_NO_CONTENT
  /\ answered = entered
  /\ answered >= 2

\* C5: once a POST has raised, the process has exited with code 1, ingested
\* counts the 204 answers only, no handler was entered after that message and
\* no POST was sent after it; the step in which it raised left userdata alone.
C5_TransportErrorFatal ==
  /\ [](failed > 0 =>
          /\ pc = "exited"
          /\ exitCode = 1
          /\ userdata.ingested = accepted
          /\ answered < failed
          /\ entered = failed
          /\ lastPost = failed
          /\ requests = <<>>)
  /\ [][failed' # failed => userdata' = userdata]_vars

\* C5 witness: the POST of the third message raised, after two were delivered.
C5_Witness ==
  /\ failed = 3
  /\ accepted = 2
  /\ pc = "exited"

\* C6: when the handler was entered for a malformed message, the process has
\* exited with code 1 on an exception, no POST was sent for that message, no
\* later message was handled, and ingested counts the 204 answers only; the
\* step that handled it changed neither ingested nor the number of POSTs.
C6_MalformedFailsFast ==
  /\ []((cur.id > 0 /\ cur.payload # "valid") =>
          /\ pc = "exited"
          /\ exitCode = 1
          /\ error # "none"
          /\ lastPost < cur.id
          /\ posts < cur.id
          /\ entered = cur.id
          /\ requests = <<>>
          /\ userdata.ingested = accepted)
  /\ [][(entered' # entered /\ cur'.payload # "valid") =>
          /\ userdata'.ingested = userdata.ingested
          /\ posts' = posts]_vars

\* C6 witness: a reading whose TIMESTAMP does not parse, after one delivered
\* reading, under a configuration with nothing missing.
C6_Witness ==
  /\ cur.payload = "bad_timestamp"
  /\ cur.id = 2
  /\ accepted = 1
  /\ error = "ValueError"
  /\ pc = "exited"

\* C7 as claimed: with source.timezone, source.timestamp_format or
\* destination.timezone absent or invalid, the broker connection is never made
\* and no message is ever handled.  The code reads these keys in the converter
\* only, so it connects and fails, if at all, on the first message.
C7_ConfigCheckedAtStartup ==
  (config.file = "ok"
     /\ (config.srcTz # "valid" \/ config.tsFormat # "valid" \/ config.dstTz # "valid"))
    => (~connected /\ entered = 0)

\* C8: at most one request is in flight, and only while the handler that sent
\* it is blocked; the handler is entered for the next message only when the
\* one before has returned and nothing is in flight; messages are taken in the
\* order of their arrival and each POST carries the message being handled.
C8_OneAtATime ==
  /\ [](/\ Len(requests) <= 1
        /\ (requests # <<>>) => (pc = "posting" /\ requests[1].msg = entered)
        /\ entered <= arrived
        /\ entered - completed <= 1)
  /\ [][(entered' # entered) =>
          /\ requests = <<>>
          /\ completed = entered
          /\ entered' = entered + 1
          /\ cur'.id = entered']_vars
  /\ [][(posts' # posts) =>
          /\ posts' = posts + 1
          /\ lastPost' > lastPost
          /\ lastPost' = cur'.id]_vars

\* C8 witness: the second message's POST is in flight while a third waits.
C8_Witness ==
  /\ pc = "posting"
  /\ Len(requests) = 1
  /\ entered = 2
  /\ arrived > entered

\* C9 as claimed: in silent mode, between two invocations, the log holds one
\* summary per TIMING_INTERVAL messages received.  The summary is logged at
\* INFO level after silent mode has raised the root logger to ERROR, so it is
\* never written.
C9_SummaryEveryInterval ==
  (userdata.silent /\ pc = "idle") =>
    log["summary"] = userdata.received \div TIMING_INTERVAL

\* The payload decodes, is a JSON object and converts to line data.
Converts(payload, cfg) ==
  /\ payload \notin {"none", "bad_utf8", "bad_json"}
  /\ ConvertError(payload, cfg) = "none"

\* C10 as claimed: the POSTs never outnumber the messages received, and the
\* message being handled, once decoded and converted, has been POSTed, as have
\* all before it, once each.  The code reads the destination.influxdb keys
\* between the conversion and the POST, and with one of them missing the
\* converted message is never POSTed.
C10_OnePostPerReading ==
  /\ posts <= userdata.received
  /\ (cur.id > 0 /\ Converts(cur.payload, config)) =>
       (lastPost = cur.id /\ posts = cur.id)

\* C13: with no -c argument, with a file that is not YAML, or with an empty
\* document, the broker connection is never made, no message arrives or is
\* handled, no POST is sent, and once main() has looked at the configuration
\* the process has exited with code 1.
C13_NoConfigExitsAtStartup ==
  (config.file # "ok") =>
    /\ ~connected
    /\ arrived = 0
    /\ entered = 0
    /\ posts = 0
    /\ (pc # "start") => (pc = "exited" /\ exitCode = 1)

\* C13 witness: the process has exited on an empty configuration document.
C13_Witness ==
  /\ config.file = "empty"
  /\ pc = "exited"
  /\ exitCode = 1

\* A complete configuration, and the exception a valid reading ends on when
\* the configuration lacks a destination.influxdb key.
FullConfig ==
  [file |-> "ok", mqtt |-> TRUE, srcTz |-> "valid", tsFormat |-> "valid",
   dstTz |-> "valid", influx |-> TRUE]

MissingConfigKeyError == PrepareError("valid", [FullConfig EXCEPT !.influx = FALSE])

\* C14 as claimed: when the process ended on a reading without Station, the
\* class of the exception is not the one a missing configuration key ends on.
\* The code raises KeyError for both, from the dict lookups at lines 163 and
\* 122-126; only the key named in the message tells them apart.
C14_MissingFieldDistinguished ==
  (pc = "exited" /\ cur.payload = "no_station") =>
    (error # "none" /\ error # MissingConfigKeyError)

\* C15 as claimed: every POST answered with a status other than 204 has left
\* a record in the log.  The code logs the answer at DEBUG level and only when
\* not in silent mode, so in silent mode a rejection leaves no record.
C15_RejectionLogged == log["response"] >= rejected

\* C16 as claimed: ingested lies between 0 and received, neither counter ever
\* decreases, and every invocation of on_message raises received by exactly 1
\* and ingested, over the whole invocation, by at most 1.  An invocation on a
\* payload that is not UTF-8 leaves received as it was (C2).
C16_CounterBounds ==
  /\ [](0 <= userdata.ingested /\ userdata.ingested <= userdata.received)
  /\ [][/\ userdata'.received >= userdata.received
        /\ userdata'.ingested >= userdata.ingested
        /\ userdata'.ingested <= userdata.ingested + 1]_vars
  /\ [][(entered' # entered) =>
          /\ userdata'.received = userdata.received + 1
          /\ userdata'.ingested = userdata.ingested]_vars
  /\ [][(completed' # completed) =>
          userdata'.received = userdata.received]_vars

\* =============================================================== converter
\* convert_json_to_linedata() as a function of the reading and the
\* configuration.  A reading is the dict json.loads gave, as the sequence of
\* its key/value pairs in insertion order; a value is an int, a float (by its
\* Python repr), a string, a bool or null.  The value of TIMESTAMP is a string
\* kept as the sequence of its characters, since it is parsed.

\* str(value), as the % and + operators of lines 175 and 176 apply it.
Str(v) ==
  CASE v.t = "int" -> ToString(v.n)
    [] v.t = "float" -> v.repr
    [] v.t = "str" -> v.s
    [] v.t = "bool" -> (IF v.b THEN "True" ELSE "False")
    [] OTHER -> "None"

\* `key in json_data` and json_data[key]
Has(d, key) == \E i \in 1..Len(d) : d[i].k = key

Get(d, key) == d[CHOOSE i \in 1..Len(d) : d[i].k = key].v

\* ---- gettz: the zones the tz database knows, by their offset from UTC in
\* seconds (zones without daylight saving time); any other name gives None.
ZoneOffset ==
  ("UTC" :> 0) @@ ("Asia/Kolkata" :> 19800) @@ ("America/Phoenix" :> (0 - 25200))
    @@ ("Asia/Tokyo" :> 32400)

gettz(name) == IF name \in DOMAIN ZoneOffset THEN name ELSE "None"

\* ---- strptime
DigitVal ==
  ("0" :> 0) @@ ("1" :> 1) @@ ("2" :> 2) @@ ("3" :> 3) @@ ("4" :> 4) @@ ("5" :> 5)
    @@ ("6" :> 6) @@ ("7" :> 7) @@ ("8" :> 8) @@ ("9" :> 9)

\* The most digits a directive takes: %Y takes exactly four, %f one to six,
\* the others one or two.
DirectiveWidth ==
  ("%Y" :> 4) @@ ("%m" :> 2) @@ ("%d" :> 2) @@ ("%H" :> 2) @@ ("%M" :> 2)
    @@ ("%S" :> 2) @@ ("%f" :> 6)

\* What a field holds when the format has no directive for it.
FieldDefaults ==
  ("%Y" :> 1900) @@ ("%m" :> 1) @@ ("%d" :> 1) @@ ("%H" :> 0) @@ ("%M" :> 0)
    @@ ("%S" :> 0) @@ ("%f" :> 0)

\* How many of the first `most` characters of `text` are leading digits.
LeadingDigits(text, most) ==
  Cardinality({k \in 1..(IF Len(text) < most THEN Len(text) ELSE most) :
                 \A j \in 1..k : text[j] \in DOMAIN DigitVal})

RECURSIVE NumVal(_)
NumVal(ds) ==
  IF ds = <<>> THEN 0
  ELSE 10 * NumVal(SubSeq(ds, 1, Len(ds) - 1)) + DigitVal[ds[Len(ds)]]

RECURSIVE Pow10(_)
Pow10(n) == IF n = 0 THEN 1 ELSE 10 * Pow10(n - 1)

\* The format is matched against the text from left to right: a directive
\* takes digits, any other character must be met as it is, and nothing may
\* remain.  The result tells whether the text matched, and the fields found.
NoMatch == [ok |-> FALSE, f |-> FieldDefaults]

RECURSIVE Scan(_, _, _)
Scan(fmt, text, acc) ==
  IF fmt = <<>> THEN (IF text = <<>> THEN [ok |-> TRUE, f |-> acc] ELSE NoMatch)
  ELSE LET d == Head(fmt) IN
    IF d \in DOMAIN DirectiveWidth
      THEN LET n == LeadingDigits(text, DirectiveWidth[d])
               val == NumVal(SubSeq(text, 1, n))
           IN  IF n = 0 \/ (d = "%Y" /\ n < 4) THEN NoMatch
               ELSE Scan(Tail(fmt), SubSeq(text, n + 1, Len(text)),
                         [acc EXCEPT ![d] = IF d = "%f" THEN val * Pow10(6 - n)
                                            ELSE val])
      ELSE IF text # <<>> /\ Head(text) = d
             THEN Scan(Tail(fmt), Tail(text), acc)
             ELSE NoMatch

\* ---- the proleptic Gregorian calendar of datetime
IsLeap(y) == y % 4 = 0 /\ (y % 100 # 0 \/ y % 400 = 0)

DaysInMonth(y, m) ==
  IF m = 2 THEN (IF IsLeap(y) THEN 29 ELSE 28)
  ELSE IF m \in {4, 6, 9, 11} THEN 30 ELSE 31

DaysBeforeYear(y) ==
  (y - 1) * 365 + ((y - 1) \div 4) - ((y - 1) \div 100) + ((y - 1) \div 400)

RECURSIVE DaysBeforeMonth(_, _)
DaysBeforeMonth(y, m) ==
  IF m = 1 THEN 0 ELSE DaysBeforeMonth(y, m - 1) + DaysInMonth(y, m - 1)

Ordinal(y, m, d) == DaysBeforeYear(y) + DaysBeforeMonth(y, m) + d

\* The fields are those of a date and time that exist.
ValidFields(f) ==
  /\ f["%m"] \in 1..12
  /\ f["%d"] \in 1..DaysInMonth(f["%Y"], f["%m"])
  /\ f["%H"] \in 0..23
  /\ f["%M"] \in 0..59
  /\ f["%S"] \in 0..59

\* A datetime: the seconds its wall clock reading lies after
\* 1970-01-01 00:00:00, its microseconds, and its tzinfo.
MakeDatetime(f) ==
  [sec |-> (Ordinal(f["%Y"], f["%m"], f["%d"]) - Ordinal(1970, 1, 1)) * 86400
             + f["%H"] * 3600 + f["%M"] * 60 + f["%S"],
   usec |-> f["%f"],
   tzinfo |-> "None"]

\* datetime.strptime(timestamp, format): a naive datetime, unless it raises
\* ValueError (ok is FALSE).
strptime(text, fmt) ==
  LET m == Scan(fmt, text, FieldDefaults)
  IN  IF m.ok /\ ValidFields(m.f)
        THEN [ok |-> TRUE, dt |-> MakeDatetime(m.f)]
        ELSE [ok |-> FALSE, dt |-> [sec |-> 0, usec |-> 0, tzinfo |-> "None"]]

\* ---- timezones
\* from_dt.replace(tzinfo=from_zone): the wall clock reading is kept.
replace_tzinfo(dt, zone) == [dt EXCEPT !.tzinfo = zone]

\* The offset that holds for a datetime: its zone's, or for a naive one the
\* system's.
utcoffset(dt, system) ==
  IF dt.tzinfo = "None" THEN ZoneOffset[system] ELSE ZoneOffset[dt.tzinfo]

\* from_dt.astimezone(to_zone): the same instant read on the clock of to_zone
\* (of the system's zone when to_zone is None).
astimezone(dt, zone, system) ==
  LET target == IF zone = "None" THEN system ELSE zone
      utc == dt.sec - utcoffset(dt, system)
  IN  [sec |-> utc + ZoneOffset[target], usec |-> dt.usec, tzinfo |-> target]

\* A faulty variant of timestamp: the wall clock reading is taken as UTC.
timestamp_naive(dt, system) == [sec |-> dt.sec, usec |-> dt.usec]

\* to_dt.timestamp(): the seconds and microseconds of the instant after the
\* epoch.
timestamp(dt, system) ==
  [sec |-> dt.sec - utcoffset(dt, system), usec |-> dt.usec]

\* The six digits of a number of microseconds.
RECURSIVE ZeroPad(_, _)
ZeroPad(t, width) == IF Len(t) >= width THEN t ELSE ZeroPad("0" \o t, width)

Pad6(n) == ZeroPad(ToString(n), 6)

\* A faulty variant of format_scaled: the scale is a thousand million.
format_scaled_nano(ts) ==
  IF ts.sec = 0 THEN ToString(ts.usec) \o "000"
  ELSE ToString(ts.sec) \o Pad6(ts.usec) \o "000"

\* '{0:.0f}'.format(to_dt.timestamp() * 1000000): the seconds times a million
\* plus the microseconds, in decimal, for an instant at or after the epoch.
\* (The product is a double; for an instant before the year 2041 its error is
\* below a half and the rounding gives the integer itself.)
format_scaled(ts) ==
  IF ts.sec = 0 THEN ToString(ts.usec)
  ELSE ToString(ts.sec) \o Pad6(ts.usec)

\* ---- the field list
RECURSIVE Join(_, _)
Join(parts, sep) ==
  IF parts = <<>> THEN ""
  ELSE IF Len(parts) = 1 THEN parts[1]
  ELSE parts[1] \o sep \o Join(Tail(parts), sep)

\* A faulty variant of field_list: TIMESTAMP is not left out.
field_list_keeps_timestamp(d) ==
  LET kept == SelectSeq(d, LAMBDA p : p.k # "Station")
  IN  [i \in 1..Len(kept) |-> kept[i].k \o "=" \o Str(kept[i].v)]

\* line 175: key=value for every key but TIMESTAMP and Station, in the order
\* of the dict, joined by commas.
field_list(d) ==
  LET kept == SelectSeq(d, LAMBDA p : p.k \notin {"TIMESTAMP", "Station"})
  IN  [i \in 1..Len(kept) |-> kept[i].k \o "=" \o Str(kept[i].v)]

\* ---- convert_json_to_linedata
Failed(err) == [error |-> err, text |-> "", timestamp_nano |-> ""]

convert_json_to_linedata(d, cfg, system) ==
  IF ~Has(d, "Station") THEN Failed("KeyError")
  ELSE IF ~Has(d, "TIMESTAMP") THEN Failed("KeyError")
  ELSE IF Get(d, "TIMESTAMP").t # "text" THEN Failed("TypeError")
  ELSE LET from_zone == gettz(cfg.timezone_src)
           to_zone == gettz(cfg.timezone_dst)
           parsed == strptime(Get(d, "TIMESTAMP").chars, cfg.timestamp_format)
       IN  IF ~parsed.ok THEN Failed("ValueError")
           ELSE LET from_dt == replace_tzinfo(parsed.dt, from_zone)
                    to_dt == astimezone(from_dt, to_zone, system)
                    timestamp_nano == format_scaled(timestamp(to_dt, system))
                    fields == Join(field_list(d), ",")
                IN  [error |-> "none",
                     text |-> "sensors,station=" \o Str(Get(d, "Station")) \o " "
                                \o fields \o " " \o timestamp_nano,
                     timestamp_nano |-> timestamp_nano]

\* ------------------------------------------------------ converter, inputs
\* TIMESTAMP texts, character by character.
\* "2020-04-27 11:46:24.922982"
TS_EXAMPLE ==
  <<"2", "0", "2", "0", "-", "0", "4", "-", "2", "7", " ", "1", "1", ":",
  "4", "6", ":", "2", "4", ".", "9", "2", "2", "9", "8", "2">>

\* "2024-02-29 23:59:59.000001"
TS_LEAPDAY ==
  <<"2", "0", "2", "4", "-", "0", "2", "-", "2", "9", " ", "2", "3", ":",
  "5", "9", ":", "5", "9", ".", "0", "0", "0", "0", "0", "1">>

\* "2000-01-01 00:00:00.5"
TS_SHORT ==
  <<"2", "0", "0", "0", "-", "0", "1", "-", "0", "1", " ", "0", "0", ":",
  "0", "0", ":", "0", "0", ".", "5">>

\* "2020-13-01 00:00:00.0"
TS_MONTH13 ==
  <<"2", "0", "2", "0", "-", "1", "3", "-", "0", "1", " ", "0", "0", ":",
  "0", "0", ":", "0", "0", ".", "0">>

\* "27/04/2020 11:46"
TS_SLASHES ==
  <<"2", "7", "/", "0", "4", "/", "2", "0", "2", "0", " ", "1", "1", ":",
  "4", "6">>

\* '%Y-%m-%d %H:%M:%S.%f' and '%Y-%m-%d %H:%M:%S'
FORMAT_MICROS ==
  <<"%Y", "-", "%m", "-", "%d", " ", "%H", ":", "%M", ":", "%S", ".", "%f">>

FORMAT_SECONDS == <<"%Y", "-", "%m", "-", "%d", " ", "%H", ":", "%M", ":", "%S">>

Text(cs) == [t |-> "text", chars |-> cs]

IntVal(n) == [t |-> "int", n |-> n]

FloatVal(r) == [t |-> "float", repr |-> r]

StrVal(x) == [t |-> "str", s |-> x]

\* The readings converted: the example of the docstring, the same keys in
\* other orders and with other timestamps, a reading with no measurement, one
\* with values of the other JSON types, and readings that lack a mandatory
\* key or hold a TIMESTAMP that is no string.
Readings ==
  { <<[k |-> "TIMESTAMP", v |-> Text(TS_EXAMPLE)], [k |-> "RECORD", v |-> IntVal(44)],
      [k |-> "Station", v |-> StrVal("DummyRiverWQ")],
      [k |-> "LoggerBattV", v |-> FloatVal("12.7")]>>,
    <<[k |-> "Station", v |-> StrVal("DummyRiverWQ")],
      [k |-> "LoggerBattV", v |-> FloatVal("12.7")],
      [k |-> "RECORD", v |-> IntVal(44)], [k |-> "TIMESTAMP", v |-> Text(TS_LEAPDAY)]>>,
    <<[k |-> "EXO_pH", v |-> FloatVal("6.73")], [k |-> "TIMESTAMP", v |-> Text(TS_SHORT)],
      [k |-> "EXO_TempC", v |-> FloatVal("24.64")], [k |-> "Station", v |-> IntVal(7)],
      [k |-> "EXO_Depthm", v |-> IntVal(0 - 2)]>>,
    <<[k |-> "Station", v |-> StrVal("S1")], [k |-> "TIMESTAMP", v |-> Text(TS_EXAMPLE)]>>,
    <<[k |-> "Station", v |-> StrVal("S 2")], [k |-> "ok", v |-> [t |-> "bool", b |-> TRUE]],
      [k |-> "TIMESTAMP", v |-> Text(TS_LEAPDAY)], [k |-> "note", v |-> [t |-> "null"]],
      [k |-> "label", v |-> StrVal("a,b=c")]>>,
    <<[k |-> "Station", v |-> StrVal("S3")], [k |-> "RECORD", v |-> IntVal(1)],
      [k |-> "TIMESTAMP", v |-> Text(TS_MONTH13)]>>,
    <<[k |-> "Station", v |-> StrVal("S3")], [k |-> "RECORD", v |-> IntVal(2)],
      [k |-> "TIMESTAMP", v |-> Text(TS_SLASHES)]>>,
    <<[k |-> "TIMESTAMP", v |-> Text(TS_EXAMPLE)], [k |-> "RECORD", v |-> IntVal(44)]>>,
    <<[k |-> "Station", v |-> StrVal("S4")], [k |-> "RECORD", v |-> IntVal(44)]>>,
    <<[k |-> "Station", v |-> StrVal("S5")], [k |-> "TIMESTAMP", v |-> IntVal(1588)]>> }

\* Names given for a timezone: those of ZoneOffset and one gettz does not know.
ZoneNames == DOMAIN ZoneOffset \cup {"Mars/Olympus"}

ConvConfigs ==
  [timezone_src : ZoneNames, timestamp_format : {FORMAT_MICROS, FORMAT_SECONDS},
   timezone_dst : ZoneNames]

\* ----------------------------------------------------- converter, actions
\* The pipeline stands still at its initial state while the converter runs.
PipelineOff ==
  /\ pc = "start"
  /\ silentArg = FALSE
  /\ config = FullConfig
  /\ userdata = [silent |-> FALSE, received |-> 0, ingested |-> 0, last_datetime |-> 0]
  /\ rootLevel = DEBUG
  /\ log = [c \in Categories |-> 0]
  /\ exitCode = -1
  /\ error = "none"
  /\ connected = FALSE
  /\ arrived = 0
  /\ entered = 0
  /\ completed = 0
  /\ cur = NoMessage
  /\ ingested = 0
  /\ requests = <<>>
  /\ posts = 0
  /\ lastPost = 0
  /\ accepted = 0
  /\ rejected = 0
  /\ answered = 0
  /\ status = 0
  /\ result = FALSE
  /\ failed = 0
  /\ clock = 0

InitConvert ==
  /\ PipelineOff
  /\ json_data \in Readings
  /\ conv_config \in ConvConfigs
  /\ local_tz \in {"UTC", "Asia/Tokyo"}
  /\ line_data = NoLine
  /\ conv_pc = "ready"

\* convert_json_to_linedata is applied to the reading.
Convert ==
  /\ conv_pc = "ready"
  /\ line_data' = convert_json_to_linedata(json_data, conv_config, local_tz)
  /\ conv_pc' = "done"
  /\ UNCHANGED <<json_data, conv_config, local_tz>>
  /\ UNCHANGED <<pc, silentArg, config, userdata, rootLevel, log, exitCode, error,
                 connected>>
  /\ UNCHANGED pipeline

\* The same reading is converted again under a configuration that differs in
\* destination.timezone alone.
ConvertForDestination(zone) ==
  /\ conv_pc \in {"done", "again"}
  /\ zone # conv_config.timezone_dst
  /\ conv_config' = [conv_config EXCEPT !.timezone_dst = zone]
  /\ line_data' = convert_json_to_linedata(json_data, conv_config', local_tz)
  /\ conv_pc' = "again"
  /\ UNCHANGED <<json_data, local_tz>>
  /\ UNCHANGED <<pc, silentArg, config, userdata, rootLevel, log, exitCode, error,
                 connected>>
  /\ UNCHANGED pipeline

NextConvert ==
  \/ Convert
  \/ \E zone \in ZoneNames : ConvertForDestination(zone)

SpecConvert == InitConvert /\ [][NextConvert]_vars

\* ------------------------------------------------------ converter, claims
Converted == conv_pc \in {"done", "again"}

\* The reading holds Station and a TIMESTAMP string that the configured
\* source format parses.
ParseableReading ==
  /\ Has(json_data, "Station")
  /\ Has(json_data, "TIMESTAMP")
  /\ Get(json_data, "TIMESTAMP").t = "text"
  /\ strptime(Get(json_data, "TIMESTAMP").chars, conv_config.timestamp_format).ok

RECURSIVE ExpectedFieldsFrom(_, _, _)
\* key=value of the reading's keys from position i on, Station and TIMESTAMP
\* left out, each after the first preceded by a comma.
ExpectedFieldsFrom(d, i, first) ==
  IF i > Len(d) THEN ""
  ELSE IF d[i].k \in {"Station", "TIMESTAMP"} THEN ExpectedFieldsFrom(d, i + 1, first)
  ELSE (IF first THEN "" ELSE ",") \o d[i].k \o "=" \o Str(d[i].v)
         \o ExpectedFieldsFrom(d, i + 1, FALSE)

\* C11: for every reading with Station and a parseable TIMESTAMP the
\* converter returns 'sensors,station=<Station> <fields> <timestamp>', where
\* <fields> is the comma-joined key=value list of exactly the reading's other
\* keys in the reading's own key order, and <timestamp> is not empty.
C11_LineFormat ==
  (Converted /\ ParseableReading) =>
    /\ line_data.error = "none"
    /\ line_data.timestamp_nano # ""
    /\ line_data.text =
         "sensors,station=" \o Str(Get(json_data, "Station")) \o " "
           \o ExpectedFieldsFrom(json_data, 1, TRUE) \o " " \o line_data.timestamp_nano

\* A reading whose Station comes first and whose TIMESTAMP comes last has
\* been converted, its two measurements in the order LoggerBattV, RECORD.
C11_Witness ==
  /\ conv_pc = "done"
  /\ ParseableReading
  /\ json_data[1].k = "Station"
  /\ json_data[2].k = "LoggerBattV"
  /\ conv_config.timezone_src = "UTC"
  /\ line_data.text =
       "sensors,station=DummyRiverWQ LoggerBattV=12.7,RECORD=44 1709251199000001"

\* Unix epoch seconds of the timestamps read as UTC wall-clock time, and
\* their six-digit microsecond part (reference values, computed outside the
\* converter).
EpochOfUtc(chars) ==
  CASE chars = TS_EXAMPLE -> [sec |-> 1587987984, micros |-> "922982"]
    [] chars = TS_LEAPDAY -> [sec |-> 1709251199, micros |-> "000001"]
    [] chars = TS_SHORT -> [sec |-> 946684800, micros |-> "500000"]

IsExampleReading ==
  /\ ParseableReading
  /\ Get(json_data, "TIMESTAMP").chars = TS_EXAMPLE
  /\ conv_config.timezone_src = "UTC"
  /\ conv_config.timezone_dst = "UTC"

\* The timestamp is the epoch time of TIMESTAMP taken as wall-clock time in
\* the source timezone, in microseconds.
C12_EpochMicroseconds ==
  (Converted /\ ParseableReading /\ conv_config.timezone_src \in DOMAIN ZoneOffset) =>
    LET e == EpochOfUtc(Get(json_data, "TIMESTAMP").chars)
    IN  line_data.timestamp_nano =
          ToString(e.sec - ZoneOffset[conv_config.timezone_src]) \o e.micros

\* C12 as stated: the timestamp is the epoch time of TIMESTAMP in the source
\* timezone times 1,000,000, and with source and destination both UTC,
\* '2020-04-27 11:46:24.922982' yields 1588001184922982.
C12_AsStated ==
  /\ C12_EpochMicroseconds
  /\ (Converted /\ IsExampleReading) => line_data.timestamp_nano = "1588001184922982"

\* C12, amended: the timestamp is the epoch time of TIMESTAMP in the source
\* timezone times 1,000,000 (microsecond scale), and with source and
\* destination both UTC, '2020-04-27 11:46:24.922982' yields 1587987984922982.
C12_MicrosecondTimestamp ==
  /\ C12_EpochMicroseconds
  /\ (Converted /\ IsExampleReading) => line_data.timestamp_nano = "1587987984922982"

\* The example timestamp has been converted from a source zone east of UTC:
\* its wall-clock time is 5 h 30 min earlier as an instant.
C12_Witness ==
  /\ conv_pc = "done"
  /\ ParseableReading
  /\ Get(json_data, "TIMESTAMP").chars = TS_EXAMPLE
  /\ conv_config.timezone_src = "Asia/Kolkata"
  /\ line_data.timestamp_nano = "1587968184922982"

\* C17: for a fixed reading and source configuration, converting again
\* under another destination.timezone gives the same outcome and the same
\* timestamp value.
C17_DestinationIndependent ==
  [][(Converted /\ Converted' /\ conv_config'.timezone_dst # conv_config.timezone_dst) =>
       /\ line_data'.error = line_data.error
       /\ line_data'.timestamp_nano = line_data.timestamp_nano]_vars

\* The example reading, first converted for another destination, has been
\* converted again for Asia/Tokyo, from source UTC.
C17_Witness ==
  /\ conv_pc = "again"
  /\ ParseableReading
  /\ Get(json_data, "TIMESTAMP").chars = TS_EXAMPLE
  /\ conv_config.timezone_src = "UTC"
  /\ conv_config.timezone_dst = "Asia/Tokyo"
  /\ line_data.timestamp_nano = "1587987984922982"

====
